---- MODULE Spec2Model ----
(***************************************************************************)
(* Model of the client-side data pipeline of the EDA dashboard:            *)
(*   - the two-tier cache (lib/cache: cacheRead / cacheWrite / cacheClear) *)
(*   - the paginated fetcher (lib/edaData: fetchAll)                       *)
(*   - the point aggregation loop and the load effect of ui/MapSection     *)
(* Each component has its own specification over the shared variables.    *)
(***************************************************************************)
EXTENDS Integers, Sequences, FiniteSets, TLC

VARIABLES
  memoryCache,   \* cache.ts: the module-level Map key -> {t, d}
  localStorage,  \* the browser's persistent store: storage key -> raw string
  now,           \* Date.now()
  last,          \* observation of the last cache operation (ghost)
  storageAccess, \* whether this page may use localStorage at all
  lastWrite,     \* per key, the most recent cacheWrite since the key was cleared (ghost)
  source,        \* the rows of the remote table, in source order
  pageSize,      \* fetchAll's pageSize argument
  fetch,         \* the state of one fetchAll invocation
  aggIn,         \* the rows handed to the aggregation loop
  aggField,      \* cfg.codeField of the selected variable
  agg,           \* the aggregation loop: next row, byCode, stats
  tables,        \* the rows of the backend tables
  sel,           \* MapSection: selectedVariable, selectedSistema, mounted instance
  ui,            \* MapSection: rows, statsByCode, sistemaOptions, loading, err
  runs,          \* every run() of the load effect, in the order they started
  utm            \* one call of utmToLatLng: arguments, projection outcome, result

cacheVars == <<memoryCache, localStorage, storageAccess, now, last, lastWrite>>
fetchVars == <<source, pageSize, fetch>>
aggVars == <<aggIn, aggField, agg>>
loadVars == <<tables, sel, ui, runs>>
coordVars == <<utm>>
vars == <<memoryCache, localStorage, storageAccess, now, last, lastWrite, source, pageSize, fetch,
          aggIn, aggField, agg, tables, sel, ui, runs, utm>>

\* ------------------------------------------------------------------ options
\* null / undefined / a missing Map entry is the empty sequence, a present
\* value x is <<x>>.
None == <<>>
Some(x) == <<x>>
Get(o) == o[1]

\* ------------------------------------------------------------------ bounds
MaxTime == 2
MaxAgeArg == 1
MaxRows == 5
MaxAggRows == 3
MaxRuns == 3
\* the page size the load's fetchAll calls run with in the model (the code
\* passes none, so the default of 1000 applies)
LoadPageSize == 2
MaxPageSize == 3
\* the row count of the worked example (2500 rows at the default page size)
ExampleRows == 2500

\* ------------------------------------------------------------------ keys
\* A string is the sequence of its pieces; startsWith is the prefix test.
CACHE_PREFIX == <<"eda_cache:">>
StartsWith(k, p) == Len(p) <= Len(k) /\ SubSeq(k, 1, Len(p)) = p

CacheKeys == {<<"ns:", "a">>, <<"other:", "c">>}
\* prefixes cacheClear is called with; <<>> is the absent (or empty) prefix
ClearPrefixes == {<<>>, <<"ns:">>, <<"other:", "c">>}
\* localStorage also holds keys of other code on the same origin
ForeignKeys == {<<"theme">>}
StorageKey(k) == CACHE_PREFIX \o k
StorageKeys == {StorageKey(k) : k \in CacheKeys} \cup ForeignKeys

\* ------------------------------------------------------------------ payloads
\* A payload is an object with an id and an optional field; a field whose
\* value is undefined is dropped by JSON.stringify.
Undefined == "undefined"
Payloads == {[id |-> 1, data |-> "d"], [id |-> 2, data |-> Undefined]}
JsonRoundTrip(d) ==
  IF "data" \in DOMAIN d /\ d.data = Undefined THEN [id |-> d.id] ELSE d

\* raw strings of localStorage
Stringify(obj) == [kind |-> "entry", t |-> obj.t, d |-> JsonRoundTrip(obj.d)]
NotJson == [kind |-> "notjson"]          \* JSON.parse throws
NoTimestamp == [kind |-> "not"]          \* parses, but obj.t is not a number
CorruptRaws == {NotJson, NoTimestamp}

\* ------------------------------------------------------------------ cacheRead
\* The cache functions over an explicit state (mem: the Map, ls: localStorage,
\* t: Date.now()), so that a handler can call several of them in one step.
MemFreshNever(t, entryT, maxAgeMs) == FALSE

MemFresh(t, entryT, maxAgeMs) == t - entryT <= maxAgeMs

LsExpiredLenient(t, entryT, maxAgeMs) == t - entryT > maxAgeMs + 1

LsExpired(t, entryT, maxAgeMs) == t - entryT > maxAgeMs

\* memoryCache.set(key, obj) of the parsed persistent entry, at time t
PromoteRenewed(mem, key, obj, t) == [mem EXCEPT ![key] = Some([t |-> t, d |-> obj.d])]

Promote(mem, key, obj, t) == [mem EXCEPT ![key] = Some([t |-> obj.t, d |-> obj.d])]

\* JSON.parse threw, or the parsed value has no numeric t: return null
OnCorruptEvict(mem, key) ==
  [res |-> None, t |-> None, from |-> "none", mem |-> [mem EXCEPT ![key] = None]]

OnCorrupt(mem, key) == [res |-> None, t |-> None, from |-> "none", mem |-> mem]

\* cacheRead(key, maxAgeMs): res is the returned value (None for null), mem the
\* Map afterwards, t and from the timestamp and the tier of the entry returned.
\* storageOk is false when localStorage throws.
ReadOutcome(mem, ls, t, key, maxAgeMs, storageOk) ==
  LET m == mem[key]
      raw == ls[StorageKey(key)]
  IN IF m # None /\ MemFresh(t, Get(m).t, maxAgeMs)
       THEN [res |-> Some(Get(m).d), t |-> Some(Get(m).t), from |-> "memory", mem |-> mem]
     ELSE IF ~storageOk \/ raw = None
       THEN [res |-> None, t |-> None, from |-> "none", mem |-> mem]
     ELSE IF Get(raw).kind # "entry" THEN OnCorrupt(mem, key)
     ELSE IF LsExpired(t, Get(raw).t, maxAgeMs)
       THEN [res |-> None, t |-> None, from |-> "none", mem |-> mem]
     ELSE [res |-> Some(Get(raw).d), t |-> Some(Get(raw).t), from |-> "storage",
           mem |-> Promote(mem, key, Get(raw), t)]

cacheRead(key, maxAgeMs, storageOk) ==
  LET o == ReadOutcome(memoryCache, localStorage, now, key, maxAgeMs, storageOk)
  IN /\ memoryCache' = o.mem
     /\ last' = [op |-> "read", key |-> key, maxAge |-> maxAgeMs, ok |-> storageOk,
                 res |-> o.res, t |-> o.t, from |-> o.from]
     /\ UNCHANGED <<localStorage, storageAccess, now, lastWrite, fetchVars, aggVars, loadVars, coordVars>>

\* ------------------------------------------------------------------ cacheWrite
MemAfterWriteKeepOld(mem, key, obj) ==
  IF mem[key] # None THEN mem ELSE [mem EXCEPT ![key] = Some(obj)]

MemAfterWrite(mem, key, obj) == [mem EXCEPT ![key] = Some(obj)]

StorageAfterWriteKeepOld(ls, key, obj, storageOk) ==
  IF storageOk /\ ls[StorageKey(key)] = None
    THEN [ls EXCEPT ![StorageKey(key)] = Some(Stringify(obj))]
  ELSE ls

StorageAfterWrite(ls, key, obj, storageOk) ==
  IF storageOk THEN [ls EXCEPT ![StorageKey(key)] = Some(Stringify(obj))]
  ELSE ls

cacheWrite(key, data, storageOk) ==
  LET obj == [t |-> now, d |-> data]
  IN /\ memoryCache' = MemAfterWrite(memoryCache, key, obj)
     /\ localStorage' = StorageAfterWrite(localStorage, key, obj, storageOk)
     /\ lastWrite' = [lastWrite EXCEPT ![key] = Some(obj)]
     /\ last' = [op |-> "write", key |-> key, ok |-> storageOk]
     /\ UNCHANGED <<storageAccess, now, fetchVars, aggVars, loadVars, coordVars>>

\* ------------------------------------------------------------------ cacheClear
MemAfterClearAll(mem, prefix) == [k \in DOMAIN mem |-> None]

MemAfterClear(mem, prefix) ==
  IF prefix = <<>> THEN [k \in DOMAIN mem |-> None]
  ELSE [k \in DOMAIN mem |-> IF StartsWith(k, prefix) THEN None ELSE mem[k]]

StorageAfterClearNothing(ls, prefix, storageOk) == ls

StorageAfterClear(ls, prefix, storageOk) ==
  IF ~storageOk THEN ls
  ELSE [s \in DOMAIN ls |->
          IF StartsWith(s, CACHE_PREFIX \o prefix) THEN None ELSE ls[s]]

\* the keys cacheClear(prefix) is to remove
Matches(k, prefix) == prefix = <<>> \/ StartsWith(k, prefix)

cacheClear(prefix, storageOk) ==
  /\ memoryCache' = MemAfterClear(memoryCache, prefix)
  /\ localStorage' = StorageAfterClear(localStorage, prefix, storageOk)
  /\ lastWrite' = [k \in DOMAIN lastWrite |->
                     IF Matches(k, prefix) THEN None ELSE lastWrite[k]]
  /\ last' = [op |-> "clear", prefix |-> prefix, ok |-> storageOk,
              removed |-> {k \in DOMAIN memoryCache :
                             Matches(k, prefix) /\ memoryCache[k] # None}]
  /\ UNCHANGED <<storageAccess, now, fetchVars, aggVars, loadVars, coordVars>>

\* ------------------------------------------------------------------ environment
\* time passes
Tick ==
  /\ now < MaxTime
  /\ now' = now + 1
  /\ last' = [op |-> "tick"]
  /\ UNCHANGED <<memoryCache, localStorage, storageAccess, lastWrite, fetchVars, aggVars, loadVars, coordVars>>

\* something else overwrites a persisted entry with a string cacheRead cannot use
Corrupt ==
  \E k \in CacheKeys, raw \in CorruptRaws :
    /\ localStorage[StorageKey(k)] # None
    /\ localStorage' = [localStorage EXCEPT ![StorageKey(k)] = Some(raw)]
    /\ last' = [op |-> "corrupt", key |-> k]
    /\ UNCHANGED <<memoryCache, storageAccess, now, lastWrite, fetchVars, aggVars, loadVars, coordVars>>

\* Reading localStorage (getItem, Object.keys, removeItem) throws exactly when
\* the page is denied the storage; setItem also throws when the quota is
\* exceeded, which depends on the call.
SetItemOutcomes == IF storageAccess THEN BOOLEAN ELSE {FALSE}

Read == \E k \in CacheKeys, a \in 0..MaxAgeArg : cacheRead(k, a, storageAccess)
Write == \E k \in CacheKeys, d \in Payloads, ok \in SetItemOutcomes : cacheWrite(k, d, ok)
Clear == \E p \in ClearPrefixes : cacheClear(p, storageAccess)

\* localStorage as a new session finds it: empty of cache entries, or holding
\* one entry an earlier session persisted
EmptyStorage ==
  [s \in StorageKeys |-> IF s \in ForeignKeys THEN Some([kind |-> "foreign"]) ELSE None]
EarlierSessionStorage ==
  {EmptyStorage} \cup
  {[EmptyStorage EXCEPT ![StorageKey(k)] = Some(Stringify([t |-> 0, d |-> d]))] :
     k \in CacheKeys, d \in Payloads}

\* ------------------------------------------------------------------ fetchAll
DefaultPageSize == 1000
Min(a, b) == IF a <= b THEN a ELSE b

\* .range(from, to) of the request of a page
RangeFrom(page, ps) == page * ps

RangeToOneTooFar(page, ps) == (page + 1) * ps

RangeTo(page, ps) == (page + 1) * ps - 1

\* the remote source answering an inclusive range [from, to] of row offsets
RowsInRange(src, from, to) == SubSeq(src, from + 1, Min(to + 1, Len(src)))

\* a response is {data, error}: rows and no error, or an error and no data
DataResponse(rows) == [data |-> Some(rows), error |-> None]
ErrorResponse(e) == [data |-> None, error |-> Some(e)]
PageError(page) == <<"request failed", page>>

IdleFetch ==
  [pc |-> "idle", page |-> 0, result |-> <<>>, inflight |-> {},
   reqs |-> <<>>, lens |-> <<>>, failed |-> None, value |-> None, error |-> None]

\* build().range(...) is called: the request of f.page is now in flight
IssueRequestAndNext(f) ==
  [f EXCEPT !.pc = "await", !.inflight = @ \cup {f.page, f.page + 1},
            !.reqs = @ \o <<f.page, f.page + 1>>]

IssueRequest(f) ==
  [f EXCEPT !.pc = "await", !.inflight = @ \cup {f.page}, !.reqs = Append(@, f.page)]

\* fetchAll(build, pageSize) up to its first await
FetchCalled == IssueRequest([IdleFetch EXCEPT !.pc = "request"])

\* if (error) throw error
OnErrorReturnPartial(f, resp) == [f EXCEPT !.pc = "returned", !.value = Some(f.result)]

OnError(f, resp) == [f EXCEPT !.pc = "thrown", !.error = resp.error]

\* if (arr.length < pageSize) break
ShortPageNever(arr, ps) == FALSE

ShortPage(arr, ps) == Len(arr) < ps

\* the loop body after the await of the request of f.page, up to the next
\* await, the return or the throw; failed and lens log what the response was
AfterResponseNoBreak(f, resp, ps) ==
  LET known == [f EXCEPT !.inflight = @ \ {f.page}]
  IN IF resp.error # None THEN OnError([known EXCEPT !.failed = Some(f.page)], resp)
     ELSE
       LET arr == IF resp.data = None THEN <<>> ELSE Get(resp.data)
           g == [known EXCEPT !.lens = Append(@, Len(arr))]
       IN IF Len(arr) = 0 \/ ShortPage(arr, ps) THEN f
          ELSE IssueRequest([g EXCEPT !.result = @ \o arr, !.page = @ + 1, !.pc = "request"])

AfterResponse(f, resp, ps) ==
  LET known == [f EXCEPT !.inflight = @ \ {f.page}]
  IN IF resp.error # None THEN OnError([known EXCEPT !.failed = Some(f.page)], resp)
     ELSE
       LET arr == IF resp.data = None THEN <<>> ELSE Get(resp.data)
           g == [known EXCEPT !.lens = Append(@, Len(arr))]
       IN IF Len(arr) = 0 THEN [g EXCEPT !.pc = "returned", !.value = Some(g.result)]
          ELSE LET h == [g EXCEPT !.result = @ \o arr]
               IN IF ShortPage(arr, ps) THEN [h EXCEPT !.pc = "returned", !.value = Some(h.result)]
                  ELSE IssueRequest([h EXCEPT !.page = @ + 1, !.pc = "request"])

\* the response of the source to the request in flight
SourceResponse(src, page, ps) ==
  DataResponse(RowsInRange(src, RangeFrom(page, ps), RangeTo(page, ps)))

FetchStart ==
  /\ fetch.pc = "idle"
  /\ fetch' = FetchCalled
  /\ UNCHANGED <<source, pageSize, cacheVars, aggVars, loadVars, coordVars>>

FetchPageOk ==
  /\ fetch.pc = "await"
  /\ fetch' = AfterResponse(fetch, SourceResponse(source, fetch.page, pageSize), pageSize)
  /\ UNCHANGED <<source, pageSize, cacheVars, aggVars, loadVars, coordVars>>

FetchPageError ==
  /\ fetch.pc = "await"
  /\ fetch' = AfterResponse(fetch, ErrorResponse(PageError(fetch.page)), pageSize)
  /\ UNCHANGED <<source, pageSize, cacheVars, aggVars, loadVars, coordVars>>

\* ------------------------------------------------------------------ sources
RowValues == 1..2
RECURSIVE SeqsUpTo(_)
SeqsUpTo(n) ==
  IF n = 0 THEN {<<>>}
  ELSE LET shorter == SeqsUpTo(n - 1)
       IN shorter \cup {Append(q, v) : q \in {x \in shorter : Len(x) = n - 1}, v \in RowValues}
SmallSources == SeqsUpTo(MaxRows)
\* the sources of the worked examples: ExampleRows rows, and a whole number of pages
ExampleSources == {[i \in 1..n |-> i] : n \in {ExampleRows, 2 * DefaultPageSize}}

\* ------------------------------------------------------------------ dates
\* A date string is a record of its shape: "YYYY-MM-DD..." (iso), "DD/MM/YYYY"
\* (dmy), the empty string, or any other text with what Date.parse makes of it.
\* A Date is a time value in days since 1970-01-01, or the Invalid Date (NaN).
IsoDate(y, m, d) == [fmt |-> "iso", y |-> y, m |-> m, d |-> d]
DmyDate(d, m, y) == [fmt |-> "dmy", y |-> y, m |-> m, d |-> d]
OtherText(parsed) == [fmt |-> "other", parsed |-> parsed]
EmptyString == [fmt |-> "empty"]

InvalidDate == [valid |-> FALSE, time |-> 0]
DateOf(time) == [valid |-> TRUE, time |-> time]
\* months of 31 days: the day count keeps the order of the calendar and rolls a
\* month beyond 12 over into the next year, as the Date constructor does
DayNumber(y, m, d) == ((y - 1970) * 12 + (m - 1)) * 31 + (d - 1)

\* new Date("YYYY-MM-DD"): the Invalid Date when the month or day is out of range
NewDateIso(ds) ==
  IF ds.m \in 1..12 /\ ds.d \in 1..31 THEN DateOf(DayNumber(ds.y, ds.m, ds.d))
  ELSE InvalidDate

ParseDateAlwaysValid(ds) ==
  IF ds.fmt = "iso" /\ ds.m \in 1..12 /\ ds.d \in 1..31
    THEN DateOf(DayNumber(ds.y, ds.m, ds.d))
  ELSE IF ds.fmt = "dmy" THEN DateOf(DayNumber(ds.y, ds.m, ds.d))
  ELSE IF ds.fmt = "other" /\ ds.parsed # None THEN DateOf(Get(ds.parsed))
  ELSE DateOf(0)

parseDate(ds) ==
  IF ds.fmt = "iso" THEN NewDateIso(ds)
  ELSE IF ds.fmt = "dmy" THEN DateOf(DayNumber(ds.y, ds.m, ds.d))
  ELSE IF ds.fmt = "other" /\ ds.parsed # None THEN DateOf(Get(ds.parsed))
  ELSE DateOf(0)

\* a < b and a > b of two Dates: false when either is the Invalid Date
DateLess(a, b) == a.valid /\ b.valid /\ a.time < b.time
DateGreater(a, b) == a.valid /\ b.valid /\ a.time > b.time

\* ------------------------------------------------------------------ aggregation
\* truthiness of string | null | undefined
TruthyCode(o) == o # None /\ Get(o) # ""
TruthyDate(o) == o # None /\ Get(o).fmt # "empty"

\* names every object inherits from Object.prototype: stats[code] of such a
\* code is an inherited function, not an entry of stats
InheritedKeys == {"constructor"}

RowCode(r, codeField) == IF codeField = "localizacao" THEN r.localizacao ELSE r.codigo
HasCode(byCode, c) == \E i \in 1..Len(byCode) : byCode[i].code = c

\* the min/max update of one dated row on the stats entry of its code
UpdateMinMax(entry, ds) ==
  LET a == parseDate(Get(ds))
      minA == IF TruthyDate(entry.min) THEN Some(parseDate(Get(entry.min))) ELSE None
      maxA == IF TruthyDate(entry.max) THEN Some(parseDate(Get(entry.max))) ELSE None
  IN [entry EXCEPT
        !.min = IF minA = None \/ DateLess(a, Get(minA)) THEN ds ELSE @,
        !.max = IF maxA = None \/ DateGreater(a, Get(maxA)) THEN ds ELSE @]

\* the stats object after the row r of code c
StatsAfterRow(stats, c, r) ==
  IF c \notin DOMAIN stats /\ c \in InheritedKeys
    THEN stats  \* !stats[c] is false; the counter of the inherited function is bumped
  ELSE
    LET ds == r.data
        e0 == IF c \in DOMAIN stats THEN stats[c] ELSE [min |-> ds, max |-> ds, count |-> 0]
        e1 == [e0 EXCEPT !.count = @ + 1]
        e2 == IF TruthyDate(ds) THEN UpdateMinMax(e1, ds) ELSE e1
    IN [x \in DOMAIN stats \cup {c} |-> IF x = c THEN e2 ELSE stats[x]]

\* the body of data.forEach((r) => ...)
AggRowNoSkip(acc, r, codeField) ==
  LET code == RowCode(r, codeField)
  IN IF ~TruthyCode(code) THEN acc
     ELSE LET c == Get(code)
          IN [byCode |-> IF HasCode(acc.byCode, c) THEN acc.byCode
                         ELSE Append(acc.byCode, [code |-> c, row |-> r]),
              stats |-> StatsAfterRow(acc.stats, c, r)]

AggRow(acc, r, codeField) ==
  LET code == RowCode(r, codeField)
  IN IF ~TruthyCode(code) THEN acc
     ELSE IF r.coord_x_m = None \/ r.coord_y_m = None THEN acc
     ELSE LET c == Get(code)
          IN [byCode |-> IF HasCode(acc.byCode, c) THEN acc.byCode
                         ELSE Append(acc.byCode, [code |-> c, row |-> r]),
              stats |-> StatsAfterRow(acc.stats, c, r)]

EmptyAgg == [byCode |-> <<>>, stats |-> <<>>]

RECURSIVE AggregateFrom(_, _, _)
AggregateFrom(acc, rows, codeField) ==
  IF rows = <<>> THEN acc
  ELSE AggregateFrom(AggRow(acc, Head(rows), codeField), Tail(rows), codeField)
Aggregate(rows, codeField) == AggregateFrom(EmptyAgg, rows, codeField)

\* rows of a table whose code column is codeField
MkRow(codeField, code, coord, data) ==
  [codigo |-> IF codeField = "codigo" THEN code ELSE None,
   localizacao |-> IF codeField = "localizacao" THEN code ELSE None,
   coord_x_m |-> coord, coord_y_m |-> coord, data |-> data]

D2019 == IsoDate(2019, 6, 1)
D2020 == IsoDate(2020, 1, 1)
D2021 == IsoDate(2021, 3, 1)
DMonth13 == IsoDate(2020, 13, 1)      \* "2020-13-01"
DDmy == DmyDate(1, 7, 2019)           \* "01/07/2019"
DText == OtherText(None)              \* "n/a": Date.parse gives NaN

AggRows(cf) ==
  {MkRow(cf, Some("A"), Some(100), Some(D2020)),
   MkRow(cf, Some("A"), Some(100), Some(D2019)),
   MkRow(cf, Some("B"), Some(200), Some(D2021)),
   MkRow(cf, Some("A"), Some(100), Some(DDmy)),
   MkRow(cf, Some("A"), Some(100), Some(DText)),
   MkRow(cf, Some("A"), Some(100), Some(DMonth13)),
   MkRow(cf, Some("A"), Some(100), None),
   MkRow(cf, Some("B"), Some(200), Some(EmptyString)),
   MkRow(cf, Some("A"), None, Some(D2019)),
   [MkRow(cf, Some("A"), Some(100), Some(D2019)) EXCEPT !.coord_y_m = None],
   MkRow(cf, None, Some(100), Some(D2019)),
   MkRow(cf, Some(""), Some(100), Some(D2019)),
   MkRow(cf, Some("constructor"), Some(300), Some(D2020))}

RECURSIVE RowSeqsUpTo(_, _)
RowSeqsUpTo(rows, n) ==
  IF n = 0 THEN {<<>>}
  ELSE LET shorter == RowSeqsUpTo(rows, n - 1)
       IN shorter \cup {Append(q, r) : q \in {x \in shorter : Len(x) = n - 1}, r \in rows}

\* one iteration of the forEach
AggStep ==
  /\ agg.i <= Len(aggIn)
  /\ agg' = [i |-> agg.i + 1,
             acc |-> AggRow(agg.acc, aggIn[agg.i], aggField)]
  /\ UNCHANGED <<aggIn, aggField, cacheVars, fetchVars, loadVars, coordVars>>

\* ------------------------------------------------------------------ utmToLatLng
\* A JavaScript number is an integer of the sample, NaN or an infinity; an
\* argument can also be null / undefined (None) or a value of another type.
Num(v) == [kind |-> "num", v |-> v]
NaN == [kind |-> "nan"]
Infinity == [kind |-> "inf"]
NotANumber == [kind |-> "string"]

MeterThreshold == 1000
MaxLat == 90
MaxLon == 180

Abs(v) == IF v < 0 THEN -v ELSE v
\* typeof v === 'number'
IsNumber(o) == o # None /\ Get(o).kind \in {"num", "nan", "inf"}
\* Math.abs(n) > bound and Math.abs(n) <= bound: both false for NaN
AbsGreater(n, bound) == n.kind = "inf" \/ (n.kind = "num" /\ Abs(n.v) > bound)
AbsLeq(n, bound) == n.kind = "num" /\ Abs(n.v) <= bound

Null == [kind |-> "null"]
Thrown == [kind |-> "thrown"]
Pair(lat, lon) == [kind |-> "pair", lat |-> lat, lon |-> lon]
\* the finite coordinates proj4 computes from (x, y)
Projected(axis, x, y) == [kind |-> "projected", axis |-> axis, x |-> x, y |-> y]

\* proj4('ESRI:102164', 'WGS84', [x, y]) gives finite values, a non-finite
\* value, or throws
ProjOutcomes == {"finite", "nonfinite", "throws"}

\* catch { return null }
OnProjThrowRethrow == Thrown

OnProjThrow == Null

\* Math.abs(y) <= 90 && Math.abs(x) <= 180
PlausibleDegreesLatOnly(x, y) == AbsLeq(y, MaxLat)

PlausibleDegrees(x, y) == AbsLeq(y, MaxLat) /\ AbsLeq(x, MaxLon)

\* return [y, x]
DegreesResultXFirst(x, y) == Pair(x, y)

DegreesResult(x, y) == Pair(y, x)

utmToLatLng(x, y, proj) ==
  IF ~IsNumber(x) \/ ~IsNumber(y) THEN Null
  ELSE IF AbsGreater(Get(x), MeterThreshold) \/ AbsGreater(Get(y), MeterThreshold)
    THEN IF proj = "throws" THEN OnProjThrow
         ELSE IF proj = "finite"
           THEN Pair(Projected("lat", Get(x), Get(y)), Projected("lon", Get(x), Get(y)))
         ELSE Null
  ELSE IF PlausibleDegrees(Get(x), Get(y)) THEN DegreesResult(Get(x), Get(y))
  ELSE Null

\* magnitudes around every threshold of the function, and a grid coordinate
CoordMagnitudes == {0, 8, 39, 90, 91, 180, 181, 1000, 1001, 200000}
CoordNumbers ==
  {Num(v) : v \in CoordMagnitudes} \cup {Num(-v) : v \in CoordMagnitudes}
    \cup {NaN, Infinity}
CoordArgs == {None, Some(NotANumber)} \cup {Some(n) : n \in CoordNumbers}

Normalize ==
  /\ utm.pc = "call"
  /\ utm' = [utm EXCEPT !.pc = "returned",
                            !.result = utmToLatLng(utm.x, utm.y, utm.proj)]
  /\ UNCHANGED <<cacheVars, fetchVars, aggVars, loadVars>>

IdleCoord ==
  utm = [x |-> None, y |-> None, proj |-> "finite", pc |-> "returned", result |-> Null]

\* ------------------------------------------------------------------ MapSection load effect
\* Time in the load specification is counted in days.
PointsMaxAge == 1    \* 24 * 60 * 60 * 1000 ms
SysMaxAge == 7       \* 7 * 24 * 60 * 60 * 1000 ms

\* the days on which the page is used: the day of the first load, the last day
\* a points entry of day 0 is served and the first it is not, and the same two
\* days for a region-label entry of day 0
VisitDays == {0, PointsMaxAge, PointsMaxAge + 1, SysMaxAge, SysMaxAge + 1}

\* localStorage answers the effect's reads and writes when the page has access
\* to it and throws (caught inside the cache functions) when it has not.
LoadStorageOk == {storageAccess}

\* profundidade stands for the three variables whose code field is codigo
\* (profundidade, nitrato, condutividade: same code path, one table each)
LoadVariables == {"profundidade", "caudal", "meteo"}
SistemaValues == {"todos", "T1"}
CodeField(v) == IF v = "caudal" THEN "localizacao" ELSE "codigo"

MeteoKey == <<"meteo_points_v1">>
PointsKey(v, s) == <<"var_points_v1:", v, ":", s>>
SysKey(v) == <<"sistemas_v1:", v>>
LoadKeys ==
  {MeteoKey, SysKey("profundidade")}
    \cup {PointsKey(v, s) : v \in {"profundidade", "caudal"}, s \in SistemaValues}

\* backend rows
PiezoRow(code, sistema, date) ==
  [codigo |-> Some(code), localizacao |-> None, coord_x_m |-> Some(100),
   coord_y_m |-> Some(100), data |-> Some(date), sistema_aquifero |-> sistema]
CaudalRow(place, date) ==
  [codigo |-> None, localizacao |-> Some(place), coord_x_m |-> Some(200),
   coord_y_m |-> Some(200), data |-> Some(date), sistema_aquifero |-> None]
MeteoRow(lat, long) == [lat |-> Some(lat), long |-> Some(long), Time |-> "2014-01-01"]

PiezoTables ==
  {<<>>,
   <<PiezoRow("A", Some("T1"), D2020), PiezoRow("A", Some("T1"), D2019),
     PiezoRow("B", None, D2021)>>}
CaudalTable == <<CaudalRow("Almourol", D2020)>>
MeteoTables == {<<>>, <<MeteoRow(39, -8)>>}

\* arr.forEach of the meteo branch: one point per distinct finite "lat,long"
RECURSIVE MeteoPointsFrom(_, _)
MeteoPointsFrom(pts, arr) ==
  IF arr = <<>> THEN pts
  ELSE LET r == Head(arr)
           key == <<r.lat, r.long>>
           seen == \E i \in 1..Len(pts) : pts[i].codigo = key
       IN IF r.lat = None \/ r.long = None \/ seen THEN MeteoPointsFrom(pts, Tail(arr))
          ELSE MeteoPointsFrom(
                 Append(pts, [codigo |-> key, lat |-> r.lat, long |-> r.long, data |-> r.Time]),
                 Tail(arr))
MeteoPoints(arr) == MeteoPointsFrom(<<>>, arr)

\* fetchDistinctSistemas and the effect's trim / unique / sort of its result
SistemaOrder == <<"T1">>
DistinctSistemas(data) ==
  LET labels == {Get(data[i].sistema_aquifero) : i \in 1..Len(data)} \ {""}
  IN SelectSeq(SistemaOrder, LAMBDA x : x \in labels)

\* the rows the request of a fetch selects, in source order
IsNotNullSistema(r) == r.sistema_aquifero # None
QuerySource(what, v, s) ==
  IF what = "meteo" THEN tables.meteo
  ELSE IF what = "sys" THEN SelectSeq(tables[v], IsNotNullSistema)
  ELSE IF s # "" /\ s # "todos" /\ CodeField(v) # "localizacao"
    THEN SelectSeq(tables[v], LAMBDA r : r.sistema_aquifero = Some(s))
  ELSE tables[v]

\* one run() of the effect
NewRun(id, v, s) ==
  [id |-> id, inst |-> sel.inst, v |-> v, s |-> s, pc |-> "start", what |-> "none",
   cancel |-> FALSE, f |-> IdleFetch, reqsDone |-> 0, outcome |-> "running",
   startedAt |-> now, afterDone |-> TRUE, endedAt |-> None, endedCancelled |-> FALSE,
   pointsT |-> None, sysT |-> None, emptyList |-> FALSE, delivered |-> None]
Requests(run) == run.reqsDone + Len(run.f.reqs)

InitialUi ==
  [rows |-> <<>>, statsByCode |-> <<>>, sistemaOptions |-> <<>>, loading |-> FALSE,
   err |-> None, rowsBy |-> None, statsBy |-> None, sysBy |-> None]

\* A handler threads a world w = [mem, ls, ui, run] through its statements.
\* A state setter of a component instance that is no longer mounted does nothing.
Live(w) == w.mounted /\ w.run.inst = w.inst
By(w) == Some([run |-> w.run.id, cancelled |-> w.run.cancel])
SetRows(w, val) ==
  IF Live(w) THEN [w EXCEPT !.ui.rows = val, !.ui.rowsBy = By(w)] ELSE w
SetStatsByCode(w, val) ==
  IF Live(w) THEN [w EXCEPT !.ui.statsByCode = val, !.ui.statsBy = By(w)] ELSE w
SetSistemaOptions(w, val) ==
  IF Live(w) THEN [w EXCEPT !.ui.sistemaOptions = val, !.ui.sysBy = By(w)] ELSE w
SetLoading(w, val) == IF Live(w) THEN [w EXCEPT !.ui.loading = val] ELSE w
SetErr(w, val) == IF Live(w) THEN [w EXCEPT !.ui.err = val] ELSE w

\* cached && cached.length > 0 (meteo points, region labels)
ListServed(o) == o.res # None /\ Len(Get(o.res).list) > 0
\* cached && Array.isArray(cached.rows)
PointsServed(o) == o.res # None

CacheWriteSkipped(w, key, data, storageOk) == w

CacheWriteDroppingLabels(w, key, data, storageOk) ==
  LET obj == [t |-> now, d |-> data]
      sys == SysKey(w.run.v)
      mem == MemAfterWrite(w.mem, key, obj)
  IN [w EXCEPT !.mem = IF key # sys /\ sys \in DOMAIN mem THEN [mem EXCEPT ![sys] = None]
                       ELSE mem,
               !.ls = StorageAfterWrite(w.ls, key, obj, storageOk)]

CacheWriteIn(w, key, data, storageOk) ==
  LET obj == [t |-> now, d |-> data]
  IN [w EXCEPT !.mem = MemAfterWrite(w.mem, key, obj),
               !.ls = StorageAfterWrite(w.ls, key, obj, storageOk)]

\* finally { if (!cancel) setLoading(false) }
FinallyUnguarded(w, outcome) ==
  [SetLoading(w, FALSE) EXCEPT
     !.run.pc = "done", !.run.outcome = outcome, !.run.endedAt = Some(now),
     !.run.endedCancelled = w.run.cancel,
     !.run.reqsDone = Requests(w.run), !.run.f = IdleFetch]

Finally(w, outcome) ==
  LET w1 == IF ~w.run.cancel THEN SetLoading(w, FALSE) ELSE w
  IN [w1 EXCEPT !.run.pc = "done", !.run.outcome = outcome, !.run.endedAt = Some(now),
                !.run.endedCancelled = w.run.cancel,
                !.run.reqsDone = Requests(w.run), !.run.f = IdleFetch]

\* catch (e) { if (!cancel) setErr(...) } finally {...}
CatchSilent(w, e) == Finally(w, "failed")

Catch(w, e) ==
  Finally(IF ~w.run.cancel THEN SetErr(w, Some(e)) ELSE w, "failed")

\* a fetchAll is called: its first request is issued and the run awaits it
AwaitFetchShared(w, what) ==
  IF \E i \in 1..Len(runs) :
       runs[i].pc = "await" /\ runs[i].what = what /\ runs[i].v = w.run.v /\ runs[i].s = w.run.s
    THEN [w EXCEPT !.run.pc = "await", !.run.what = what]
  ELSE [w EXCEPT !.run.pc = "await", !.run.what = what,
                 !.run.reqsDone = Requests(w.run), !.run.f = FetchCalled]

AwaitFetch(w, what) ==
  [w EXCEPT !.run.pc = "await", !.run.what = what,
            !.run.reqsDone = Requests(w.run), !.run.f = FetchCalled]

\* lines 230-243: the region labels of the variable
SysPart(w, storageOk) ==
  IF CodeField(w.run.v) = "localizacao" THEN Finally(SetSistemaOptions(w, <<>>), "ok")
  ELSE
    LET o == ReadOutcome(w.mem, w.ls, now, SysKey(w.run.v), SysMaxAge, storageOk)
        w1 == [w EXCEPT !.mem = o.mem]
    IN IF ListServed(o)
         THEN Finally(SetSistemaOptions([w1 EXCEPT !.run.sysT = o.t], Get(o.res).list), "ok")
       ELSE AwaitFetch(w1, "sys")

\* run() up to its first await (or to its end, when the cache answers)
RunStart(w, storageOk) ==
  LET w0 == SetErr(SetLoading(w, TRUE), None)
  IN IF w.run.v = "meteo"
       THEN LET o == ReadOutcome(w0.mem, w0.ls, now, MeteoKey, PointsMaxAge, storageOk)
                w1 == [w0 EXCEPT !.mem = o.mem]
            IN IF ListServed(o)
                 THEN Finally(
                        SetStatsByCode(
                          SetSistemaOptions(
                            SetRows([w1 EXCEPT !.run.pointsT = o.t], Get(o.res).list),
                            <<>>),
                          <<>>),
                        "ok")
               ELSE AwaitFetch(w1, "meteo")
     ELSE LET o == ReadOutcome(w0.mem, w0.ls, now, PointsKey(w.run.v, w.run.s),
                               PointsMaxAge, storageOk)
              w1 == [w0 EXCEPT !.mem = o.mem]
          IN IF PointsServed(o)
               THEN SysPart(
                      SetStatsByCode(
                        SetRows([w1 EXCEPT !.run.pointsT = o.t], Get(o.res).rows),
                        Get(o.res).stats),
                      storageOk)
             ELSE AwaitFetch(w1, "var")

\* if (cancel) return, after await fetchVariableData(...)
CancelledIgnored(run) == FALSE

CancelledAfterFetch(run) == run.cancel

\* { rows: arrByCode, stats }
PointsPayloadRowsOnly(arrByCode, stats) == [rows |-> arrByCode, stats |-> <<>>]

PointsPayload(arrByCode, stats) == [rows |-> arrByCode, stats |-> stats]

\* the continuation of run() after fetchAll returned value
AfterFetch(w, value, storageOk) ==
  IF w.run.what = "var" THEN
    IF CancelledAfterFetch(w.run) THEN Finally(w, "abandoned")
    ELSE
      LET a == Aggregate(value, CodeField(w.run.v))
          arrByCode == [i \in 1..Len(a.byCode) |-> a.byCode[i].row]
          w1 == SetStatsByCode(SetRows(w, arrByCode), a.stats)
          w2 == CacheWriteIn(w1, PointsKey(w.run.v, w.run.s),
                             PointsPayload(arrByCode, a.stats), storageOk)
      IN SysPart([w2 EXCEPT !.run.pointsT = Some(now),
                            !.run.delivered = Some([rows |-> arrByCode, stats |-> a.stats])],
                 storageOk)
  ELSE IF w.run.what = "meteo" THEN
    LET arrPts == MeteoPoints(value)
        w1 == CacheWriteIn(SetRows(w, arrPts), MeteoKey, [list |-> arrPts], storageOk)
        w2 == SetStatsByCode(SetSistemaOptions(w1, <<>>), <<>>)
    IN Finally([w2 EXCEPT !.run.pointsT = Some(now), !.run.emptyList = (arrPts = <<>>)], "ok")
  ELSE
    LET vals == DistinctSistemas(value)
        w1 == CacheWriteIn(SetSistemaOptions(w, vals), SysKey(w.run.v), [list |-> vals],
                           storageOk)
    IN Finally([w1 EXCEPT !.run.sysT = Some(now), !.run.emptyList = (vals = <<>>)], "ok")

\* the continuation of run() after the response of the page in flight
AfterPage(w, resp, storageOk) ==
  LET f == AfterResponse(w.run.f, resp, LoadPageSize)
      w1 == [w EXCEPT !.run.f = f]
  IN IF f.pc = "await" THEN w1
     ELSE IF f.pc = "thrown" THEN Catch(w1, Get(f.error))
     ELSE AfterFetch(w1, Get(f.value), storageOk)

World(run) ==
  [mem |-> memoryCache, ls |-> localStorage, ui |-> ui, run |-> run,
   mounted |-> sel.mounted, inst |-> sel.inst]

\* the effect's cleanup: the latest run's cancel flag is set
CancelLatest(rs) ==
  IF rs = <<>> THEN rs ELSE [rs EXCEPT ![Len(rs)].cancel = TRUE]

\* the effect body: a new run starts, in a component whose state is theUi
StartRun(v, s, theSel, theUi, storageOk) ==
  LET id == Len(runs) + 1
      prevDone == runs = <<>> \/ runs[Len(runs)].pc = "done"
      run0 == [NewRun(id, v, s) EXCEPT !.inst = theSel.inst, !.afterDone = prevDone]
      w == RunStart([mem |-> memoryCache, ls |-> localStorage, ui |-> theUi, run |-> run0,
                     mounted |-> TRUE, inst |-> theSel.inst], storageOk)
  IN /\ sel' = theSel
     /\ ui' = w.ui
     /\ memoryCache' = w.mem
     /\ localStorage' = w.ls
     /\ runs' = Append(CancelLatest(runs), w.run)
     /\ UNCHANGED <<storageAccess, now, last, lastWrite, tables, fetchVars, aggVars, coordVars>>

Mount ==
  /\ ~sel.mounted
  /\ Len(runs) < MaxRuns
  /\ \E ok \in LoadStorageOk :
       StartRun("profundidade", "todos",
                [variable |-> "profundidade", sistema |-> "todos", mounted |-> TRUE,
                 inst |-> sel.inst + 1],
                InitialUi, ok)

Unmount ==
  /\ sel.mounted
  /\ sel' = [sel EXCEPT !.mounted = FALSE]
  /\ runs' = CancelLatest(runs)
  /\ UNCHANGED <<ui, tables, cacheVars, fetchVars, aggVars, coordVars>>

SelectVariable ==
  /\ sel.mounted
  /\ Len(runs) < MaxRuns
  /\ \E v \in LoadVariables \ {sel.variable}, ok \in LoadStorageOk :
       StartRun(v, sel.sistema, [sel EXCEPT !.variable = v], ui, ok)

SelectSistema ==
  /\ sel.mounted
  /\ Len(runs) < MaxRuns
  /\ sel.variable # "meteo" /\ CodeField(sel.variable) # "localizacao"
  /\ \E s \in ({"todos"} \cup {ui.sistemaOptions[i] : i \in 1..Len(ui.sistemaOptions)})
                \ {sel.sistema}, ok \in LoadStorageOk :
       StartRun(sel.variable, s, [sel EXCEPT !.sistema = s], ui, ok)

Respond(i, resp, storageOk) ==
  LET w == AfterPage(World(runs[i]), resp, storageOk)
  IN /\ ui' = w.ui
     /\ memoryCache' = w.mem
     /\ localStorage' = w.ls
     /\ runs' = [runs EXCEPT ![i] = w.run]
     /\ UNCHANGED <<sel, storageAccess, now, last, lastWrite, tables, fetchVars, aggVars, coordVars>>

PageArrives ==
  \E i \in 1..Len(runs), ok \in LoadStorageOk :
    /\ runs[i].pc = "await"
    /\ Respond(i, SourceResponse(QuerySource(runs[i].what, runs[i].v, runs[i].s),
                                 runs[i].f.page, LoadPageSize), ok)

PageFails ==
  \E i \in 1..Len(runs) :
    /\ runs[i].pc = "await"
    /\ Respond(i, ErrorResponse(PageError(runs[i].f.page)), TRUE)

\* Time is counted in days and a request is answered within the day: the day
\* changes only while no run is waiting for a response.
LoadTick ==
  /\ Len(runs) < MaxRuns
  /\ \A i \in 1..Len(runs) : runs[i].pc = "done"
  /\ \E d \in VisitDays : d > now /\ now' = d
  /\ UNCHANGED <<memoryCache, localStorage, storageAccess, last, lastWrite, loadVars, fetchVars, aggVars, coordVars>>

IdleLoad ==
  /\ tables = [profundidade |-> <<>>, caudal |-> <<>>, meteo |-> <<>>]
  /\ sel = [variable |-> "profundidade", sistema |-> "todos", mounted |-> FALSE, inst |-> 0]
  /\ ui = InitialUi
  /\ runs = <<>>


\* ------------------------------------------------------------------ specifications
IdleCache ==
  /\ memoryCache = [k \in CacheKeys |-> None]
  /\ localStorage = EmptyStorage
  /\ storageAccess = TRUE
  /\ now = 0
  /\ last = [op |-> "init"]
  /\ lastWrite = [k \in CacheKeys |-> None]

IdleFetcher ==
  /\ source = <<>>
  /\ pageSize = DefaultPageSize
  /\ fetch = IdleFetch

IdleAggregator ==
  /\ aggIn = <<>>
  /\ aggField = "codigo"
  /\ agg = [i |-> 1, acc |-> EmptyAgg]

InitCache ==
  /\ memoryCache = [k \in CacheKeys |-> None]
  /\ localStorage \in EarlierSessionStorage
  /\ storageAccess \in BOOLEAN
  /\ now = 0
  /\ last = [op |-> "init"]
  /\ lastWrite = [k \in CacheKeys |-> None]
  /\ IdleFetcher
  /\ IdleAggregator
  /\ IdleLoad
  /\ IdleCoord

NextCache == Read \/ Write \/ Clear \/ Tick \/ Corrupt

SpecCache == InitCache /\ [][NextCache]_vars

\* The cache with the three keys of the clearing example and one payload.
ExampleKeys == {<<"ns:", "a">>, <<"ns:", "b">>, <<"other:", "c">>}
ExamplePrefixes == {<<>>, <<"ns:">>, <<"other:">>, <<"ns:", "a">>, <<"zz:">>}
ExamplePayload == [id |-> 1, data |-> "d"]

ReadExample == \E k \in ExampleKeys : cacheRead(k, MaxAgeArg, storageAccess)
WriteExample == \E k \in ExampleKeys, ok \in SetItemOutcomes : cacheWrite(k, ExamplePayload, ok)
ClearExample == \E p \in ExamplePrefixes : cacheClear(p, storageAccess)

InitExample ==
  /\ memoryCache = [k \in ExampleKeys |-> None]
  /\ localStorage = [s \in {StorageKey(k) : k \in ExampleKeys} \cup ForeignKeys |->
                       IF s \in ForeignKeys THEN Some([kind |-> "foreign"]) ELSE None]
  /\ storageAccess \in BOOLEAN
  /\ now = 0
  /\ last = [op |-> "init"]
  /\ lastWrite = [k \in ExampleKeys |-> None]
  /\ IdleFetcher
  /\ IdleAggregator
  /\ IdleLoad
  /\ IdleCoord

\* The cache where no operation on localStorage fails: the page has access to
\* it, every setItem succeeds, and no other code overwrites the cache's entries.
WriteOk == \E k \in CacheKeys, d \in Payloads : cacheWrite(k, d, TRUE)

InitReliable == InitCache /\ storageAccess

NextReliable == Read \/ WriteOk \/ Clear \/ Tick

SpecReliable == InitReliable /\ [][NextReliable]_vars

NextExample == ReadExample \/ WriteExample \/ ClearExample \/ Tick

SpecExample == InitExample /\ [][NextExample]_vars

InitFetch ==
  /\ \/ pageSize \in 1..MaxPageSize /\ source \in SmallSources
     \/ pageSize = DefaultPageSize /\ source \in ExampleSources
  /\ fetch = IdleFetch
  /\ IdleCache
  /\ IdleAggregator
  /\ IdleLoad
  /\ IdleCoord

NextFetch == FetchStart \/ FetchPageOk \/ FetchPageError

SpecFetch == InitFetch /\ [][NextFetch]_vars

InitAgg ==
  /\ aggField \in {"codigo", "localizacao"}
  /\ aggIn \in RowSeqsUpTo(AggRows(aggField), MaxAggRows)
  /\ agg = [i |-> 1, acc |-> EmptyAgg]
  /\ IdleCache
  /\ IdleFetcher
  /\ IdleLoad
  /\ IdleCoord

NextAgg == AggStep

SpecAgg == InitAgg /\ [][NextAgg]_vars

InitLoad ==
  /\ \E p \in PiezoTables, m \in MeteoTables :
       tables = [profundidade |-> p, caudal |-> CaudalTable, meteo |-> m]
  /\ sel = [variable |-> "profundidade", sistema |-> "todos", mounted |-> FALSE, inst |-> 0]
  /\ ui = InitialUi
  /\ runs = <<>>
  /\ memoryCache = [k \in LoadKeys |-> None]
  /\ localStorage = [k \in {StorageKey(x) : x \in LoadKeys} |-> None]
  /\ storageAccess = TRUE
  /\ now = 0
  /\ last = [op |-> "init"]
  /\ lastWrite = [k \in CacheKeys |-> None]
  /\ IdleFetcher
  /\ IdleAggregator
  /\ IdleCoord

NextLoad == Mount \/ Unmount \/ SelectVariable \/ SelectSistema \/ PageArrives \/ PageFails
              \/ LoadTick

SpecLoad == InitLoad /\ [][NextLoad]_vars

InitCoord ==
  /\ \E x \in CoordArgs, y \in CoordArgs, p \in ProjOutcomes :
       utm = [x |-> x, y |-> y, proj |-> p, pc |-> "call", result |-> Null]
  /\ IdleCache
  /\ IdleFetcher
  /\ IdleAggregator
  /\ IdleLoad

NextCoord == Normalize

SpecCoord == InitCoord /\ [][NextCoord]_vars

\* ================================================================== claims
\* C1: a cacheRead of a key within maxAge of the most recent cacheWrite to
\* that key (no clear of the key in between) returns exactly the payload of
\* that write: the later write replaced the earlier one whole, whether or not
\* its persistent write succeeded.
C1_ReadReturnsLatestWrite ==
  (/\ last.op = "read"
   /\ lastWrite[last.key] # None
   /\ now - Get(lastWrite[last.key]).t <= last.maxAge)
  => last.res = Some(Get(lastWrite[last.key]).d)

\* the read returned the second write's payload while the persistent tier
\* still holds the first write's entry, with another payload
C1_Witness ==
  /\ last.op = "read"
  /\ lastWrite[last.key] # None
  /\ last.res = Some(Get(lastWrite[last.key]).d)
  /\ localStorage[StorageKey(last.key)] # None
  /\ Get(localStorage[StorageKey(last.key)]).kind = "entry"
  /\ Get(localStorage[StorageKey(last.key)]).d.id # Get(last.res).id
  /\ Get(localStorage[StorageKey(last.key)]).t < Get(lastWrite[last.key]).t

\* C5: fetchAll stops at the first page shorter than pageSize (or empty) and
\* requests nothing after it; when it returns it has issued exactly
\* floor(N / pageSize) + 1 requests for a source of N rows, every page but the
\* last full, and the pages hold N rows in total.
C5_StopsAtShortPage ==
  /\ \A i \in 1..Len(fetch.lens) :
       fetch.lens[i] < pageSize => (i = Len(fetch.reqs) /\ fetch.pc = "returned")
  /\ fetch.pc = "returned" =>
       /\ Len(fetch.reqs) = (Len(source) \div pageSize) + 1
       /\ Len(fetch.lens) = Len(fetch.reqs)
       /\ \A i \in 1..(Len(fetch.lens) - 1) : fetch.lens[i] = pageSize
       /\ fetch.lens[Len(fetch.lens)] = Len(source) % pageSize
       /\ Len(Get(fetch.value)) = Len(source)

\* the worked example: 2500 rows at page size 1000 took 3 requests that
\* returned 1000, 1000 and 500 rows
C5_Witness ==
  /\ fetch.pc = "returned"
  /\ Len(source) = ExampleRows
  /\ pageSize = DefaultPageSize
  /\ fetch.reqs = <<0, 1, 2>>
  /\ fetch.lens = <<DefaultPageSize, DefaultPageSize, ExampleRows - 2 * DefaultPageSize>>

\* C6: once a page request has returned an error, fetchAll has thrown that
\* error, returns no rows (not even those of earlier pages), has no request in
\* flight and has requested no page after, or again, the failed one.
C6_FailsFast ==
  fetch.failed # None =>
    /\ fetch.pc = "thrown"
    /\ fetch.error = Some(PageError(Get(fetch.failed)))
    /\ fetch.value = None
    /\ fetch.inflight = {}
    /\ fetch.reqs = [i \in 1..(Get(fetch.failed) + 1) |-> i - 1]

\* the second page failed after a first page of rows had been accumulated
C6_Witness ==
  /\ fetch.pc = "thrown"
  /\ fetch.failed = Some(1)
  /\ Len(fetch.result) > 0
  /\ fetch.value = None

\* C7: against a source that does not change and honours the inclusive range
\* of every request, fetchAll returns the rows of the source, each once and in
\* source order.
C7_ReturnsSourceInOrder ==
  fetch.pc = "returned" => Get(fetch.value) = source

\* three pages, the last one short, over rows that are not all alike
C7_Witness ==
  /\ fetch.pc = "returned"
  /\ Len(fetch.reqs) = 3
  /\ Len(source) = 2 * pageSize + 1
  /\ \E i, j \in 1..Len(source) : source[i] # source[j]
  /\ Get(fetch.value) = source

\* C8: at most one page request is outstanding; pages are requested in the
\* order 0, 1, 2, ... and a page is requested only when the result of every
\* earlier page is known.
C8_OneRequestAtATime ==
  /\ Cardinality(fetch.inflight) <= 1
  /\ fetch.reqs = [i \in 1..Len(fetch.reqs) |-> i - 1]
  /\ fetch.inflight # {} => (fetch.pc = "await" /\ fetch.inflight = {Len(fetch.reqs) - 1})
  /\ Len(fetch.lens) + (IF fetch.failed = None THEN 0 ELSE 1)
       = Len(fetch.reqs) - Cardinality(fetch.inflight)

\* the third page is in flight and the first two results are known
C8_Witness ==
  /\ fetch.pc = "await"
  /\ fetch.inflight = {2}
  /\ Len(fetch.lens) = 2

\* ------------------------------------------------------------------ aggregator claims
AggDone == agg.i = Len(aggIn) + 1
\* the rows the claims count for a code: they carry the code in the code field
\* and both coordinates are numbers
ContribIdx(c) ==
  {i \in 1..Len(aggIn) :
     /\ RowCode(aggIn[i], aggField) = Some(c)
     /\ c # ""
     /\ aggIn[i].coord_x_m # None /\ aggIn[i].coord_y_m # None}
AllContribIdx ==
  {i \in 1..Len(aggIn) :
     /\ RowCode(aggIn[i], aggField) \notin {None, Some("")}
     /\ aggIn[i].coord_x_m # None /\ aggIn[i].coord_y_m # None}
DatedIdx(c) == {i \in ContribIdx(c) : TruthyDate(aggIn[i].data)}
DateLeq(a, b) == a.valid /\ b.valid /\ a.time <= b.time
RECURSIVE SumCounts(_, _)
SumCounts(stats, codes) ==
  IF codes = {} THEN 0
  ELSE LET c == CHOOSE x \in codes : TRUE
       IN stats[c].count + SumCounts(stats, codes \ {c})

\* C9: for every code of the output, min is the date of a dated contributing
\* row that no dated contributing row precedes, max one that none follows, and
\* min <= max under the comparison of parsed dates when both are non-null.
C9_MinMaxChronological ==
  AggDone =>
    \A c \in DOMAIN agg.acc.stats :
      LET e == agg.acc.stats[c]
          dated == DatedIdx(c)
      IN /\ dated # {} =>
              /\ \E i \in dated : aggIn[i].data = e.min
              /\ \E i \in dated : aggIn[i].data = e.max
              /\ \A i \in dated :
                   /\ DateLeq(parseDate(Get(e.min)), parseDate(Get(aggIn[i].data)))
                   /\ DateLeq(parseDate(Get(aggIn[i].data)), parseDate(Get(e.max)))
         /\ (e.min # None /\ e.max # None) =>
              DateLeq(parseDate(Get(e.min)), parseDate(Get(e.max)))

\* C10: the count of every code equals the number of rows that carry the code
\* and numeric coordinates; every such code has an entry, every count is at
\* least 1, and the counts add up to the number of rows not excluded.
C10_CountsContributingRows ==
  AggDone =>
    /\ \A i \in AllContribIdx : Get(RowCode(aggIn[i], aggField)) \in DOMAIN agg.acc.stats
    /\ \A c \in DOMAIN agg.acc.stats :
         /\ agg.acc.stats[c].count >= 1
         /\ agg.acc.stats[c].count = Cardinality(ContribIdx(c))
    /\ SumCounts(agg.acc.stats, DOMAIN agg.acc.stats) = Cardinality(AllContribIdx)

\* the rows handled so far, and whether a row is one the loop skips
Handled == SubSeq(aggIn, 1, agg.i - 1)
Excluded(r) ==
  \/ RowCode(r, aggField) \in {None, Some("")}
  \/ r.coord_x_m = None
  \/ r.coord_y_m = None
NotExcluded(r) == ~Excluded(r)
RepCodes == {agg.acc.byCode[i].code : i \in 1..Len(agg.acc.byCode)}

\* C11: the representatives hold one row per code, the first contributing row
\* of that code in input order, and the codes that have a representative are
\* exactly the codes that have a stats entry.
C11_FirstRowRepresents ==
  AggDone =>
    /\ \A i, j \in 1..Len(agg.acc.byCode) :
         agg.acc.byCode[i].code = agg.acc.byCode[j].code => i = j
    /\ \A i \in 1..Len(agg.acc.byCode) :
         LET c == agg.acc.byCode[i].code
         IN /\ ContribIdx(c) # {}
            /\ agg.acc.byCode[i].row
                 = aggIn[CHOOSE k \in ContribIdx(c) : \A m \in ContribIdx(c) : k <= m]
    /\ RepCodes = DOMAIN agg.acc.stats

\* C12: a row without a code or without numeric coordinates leaves no trace:
\* the representatives and the stats are those of the input with such rows
\* removed, and no representative is such a row.
C12_ExcludedRowsLeaveNoTrace ==
  /\ agg.acc = Aggregate(SelectSeq(Handled, NotExcluded), aggField)
  /\ \A i \in 1..Len(agg.acc.byCode) : NotExcluded(agg.acc.byCode[i].row)

\* a row of code A without coordinates was handled after a row of code A with
\* them, and so was a row without a code
C12_Witness ==
  /\ AggDone
  /\ Len(aggIn) = 3
  /\ NotExcluded(aggIn[1])
  /\ RowCode(aggIn[2], aggField) = RowCode(aggIn[1], aggField)
  /\ aggIn[2].coord_x_m = None
  /\ RowCode(aggIn[3], aggField) = None
  /\ agg.acc.stats[Get(RowCode(aggIn[1], aggField))].count = 1

\* ------------------------------------------------------------------ cacheClear claims
\* what cacheRead(k, maxAgeMs) would return in the current state
ReadNow(k, maxAgeMs) ==
  ReadOutcome(memoryCache, localStorage, now, k, maxAgeMs, storageAccess)
ReadableKeys == {k \in DOMAIN memoryCache : ReadNow(k, MaxTime).res # None}

\* C13 (every clear): the keys that start with the prefix are gone from the
\* in-memory tier and from the persistent tier and cannot be read; every other
\* key, and every key of other code, keeps its entry in both tiers.
C13_ClearStep ==
  last'.op = "clear" =>
    /\ \A k \in DOMAIN memoryCache :
         IF Matches(k, last'.prefix)
           THEN /\ memoryCache'[k] = None
                /\ storageAccess => localStorage'[StorageKey(k)] = None
                /\ ReadOutcome(memoryCache', localStorage', now', k, MaxTime,
                               storageAccess').res = None
           ELSE /\ memoryCache'[k] = memoryCache[k]
                /\ localStorage'[StorageKey(k)] = localStorage[StorageKey(k)]
    /\ \A f \in ForeignKeys : localStorage'[f] = localStorage[f]

\* C13 (the example): after ns:a, ns:b and other:c were written, clear("ns:")
\* leaves other:c as the only readable key, with the payload and the timestamp
\* of its write.
C13_Example ==
  (/\ last.op = "clear" /\ last.prefix = <<"ns:">>
   /\ last.removed = {<<"ns:", "a">>, <<"ns:", "b">>}
   /\ lastWrite[<<"other:", "c">>] # None)
  => /\ ReadableKeys = {<<"other:", "c">>}
     /\ ReadNow(<<"other:", "c">>, MaxTime).res = Some(Get(lastWrite[<<"other:", "c">>]).d)
     /\ ReadNow(<<"other:", "c">>, MaxTime).t = Some(Get(lastWrite[<<"other:", "c">>]).t)

\* C13: cacheClear(prefix) removes from both tiers exactly the keys that start
\* with the prefix and leaves every other key readable with unchanged payload
\* and timestamp; after writing ns:a, ns:b and other:c, clear("ns:") leaves
\* only other:c readable.
C13_ClearRemovesExactlyPrefix == []C13_Example /\ [][C13_ClearStep]_vars

\* clear("ns:") has just removed ns:a and ns:b, which both tiers held, and
\* other:c, written at an earlier time, is still held by both tiers
C13_Witness ==
  /\ last.op = "clear" /\ last.prefix = <<"ns:">>
  /\ last.removed = {<<"ns:", "a">>, <<"ns:", "b">>}
  /\ storageAccess
  /\ lastWrite[<<"other:", "c">>] # None
  /\ memoryCache[<<"other:", "c">>] # None
  /\ localStorage[StorageKey(<<"other:", "c">>)] # None
  /\ Get(memoryCache[<<"other:", "c">>]).t < now
  /\ ReadableKeys = {<<"other:", "c">>}

\* C14 (the clear): a cacheClear() with no prefix leaves no key readable and
\* no cache entry in the in-memory tier or, where it is accessible, in the
\* persistent tier.
C14_ClearAllStep ==
  (last'.op = "clear" /\ last'.prefix = <<>>) =>
    \A k \in DOMAIN memoryCache :
      /\ memoryCache'[k] = None
      /\ storageAccess => localStorage'[StorageKey(k)] = None
      /\ \A a \in 0..MaxTime :
           ReadOutcome(memoryCache', localStorage', now', k, a, storageAccess').res = None

\* C14 (afterwards): a key that cannot be read stays so until it is written:
\* only a cacheWrite of the key makes it readable, and a cacheRead of a key
\* that cannot be read returns null.
C14_UnreadableUntilWritten ==
  \A k \in DOMAIN memoryCache :
    (k \notin ReadableKeys /\ ~(last'.op = "write" /\ last'.key = k)) =>
      /\ ReadOutcome(memoryCache', localStorage', now', k, MaxTime, storageAccess').res = None
      /\ (last'.op = "read" /\ last'.key = k /\ last' # last) => last'.res = None

\* C14: after cacheClear() with no prefix no key is readable from either tier:
\* every cacheRead that follows returns null until the next cacheWrite of its
\* key.
C14_ClearAllLeavesNothing == [][C14_ClearAllStep /\ C14_UnreadableUntilWritten]_vars

\* cacheClear() has just removed every key from a cache whose two tiers held
\* them all
C14_Witness ==
  /\ last.op = "clear" /\ last.prefix = <<>>
  /\ last.removed = CacheKeys
  /\ storageAccess
  /\ ReadableKeys = {}
  /\ \A k \in CacheKeys : memoryCache[k] = None /\ localStorage[StorageKey(k)] = None

\* ------------------------------------------------------------------ failed persistent writes
\* the persistent tier does not hold the entry of the latest write of k: the
\* setItem of that write failed
NotPersisted(k) ==
  /\ lastWrite[k] # None
  /\ localStorage[StorageKey(k)] # Some(Stringify(Get(lastWrite[k])))

\* C15: when the setItem of a cacheWrite fails, the write completes, the
\* persistent tier is as it was and the in-memory tier holds the new entry;
\* every read of the key within maxAge of that write returns the written
\* payload, from the in-memory tier, never what the persistent tier holds.
C15_FailedWriteStillServed ==
  /\ (last.op = "write" /\ ~last.ok) =>
       /\ memoryCache[last.key] = Some([t |-> now, d |-> Get(lastWrite[last.key]).d])
       /\ \A a \in 0..MaxAgeArg :
            ReadNow(last.key, a).res = Some(Get(lastWrite[last.key]).d)
  /\ (/\ last.op = "read"
      /\ NotPersisted(last.key)
      /\ now - Get(lastWrite[last.key]).t <= last.maxAge) =>
       /\ last.res = Some(Get(lastWrite[last.key]).d)
       /\ last.t = Some(Get(lastWrite[last.key]).t)
       /\ last.from = "memory"

\* a read, some time after a write whose setItem failed, returned the written
\* payload while the persistent tier holds an older entry with another payload
C15_Witness ==
  /\ last.op = "read"
  /\ storageAccess
  /\ NotPersisted(last.key)
  /\ last.from = "memory"
  /\ now > Get(lastWrite[last.key]).t
  /\ localStorage[StorageKey(last.key)] # None
  /\ Get(localStorage[StorageKey(last.key)]).kind = "entry"
  /\ Get(localStorage[StorageKey(last.key)]).t < Get(lastWrite[last.key]).t
  /\ Get(localStorage[StorageKey(last.key)]).d # JsonRoundTrip(Get(last.res))

\* ------------------------------------------------------------------ corrupt persistent entries
CorruptIn(ls, k) == ls[StorageKey(k)] # None /\ Get(ls[StorageKey(k)]).kind # "entry"

\* C16: a cacheRead that reaches a persistent entry which does not parse or
\* has no numeric timestamp returns null and changes neither tier.
C16_CorruptReadStep ==
  (/\ last'.op = "read" /\ last' # last
   /\ storageAccess
   /\ CorruptIn(localStorage, last'.key)
   /\ ~(memoryCache[last'.key] # None
        /\ MemFresh(now, Get(memoryCache[last'.key]).t, last'.maxAge)))
  => /\ last'.res = None
     /\ memoryCache' = memoryCache
     /\ localStorage' = localStorage

\* C16: on a persistent-tier read, an entry that fails deserialization or has
\* no numeric timestamp is a cache miss: cacheRead returns null and leaves the
\* in-memory tier unchanged.
C16_CorruptEntryIsMiss == [][C16_CorruptReadStep]_vars

\* a read returned null on a corrupt persistent entry while the in-memory tier
\* kept its entry, too old for that read
C16_Witness ==
  /\ last.op = "read" /\ last.res = None
  /\ storageAccess
  /\ CorruptIn(localStorage, last.key)
  /\ memoryCache[last.key] # None
  /\ now - Get(memoryCache[last.key]).t > last.maxAge

\* ------------------------------------------------------------------ read order and promotion
ReadStep == last'.op = "read" /\ last' # last
FreshInMemory(k, maxAgeMs) ==
  memoryCache[k] # None /\ MemFresh(now, Get(memoryCache[k]).t, maxAgeMs)

\* C17 (one read): an entry of the in-memory tier that is valid for the maxAge
\* is returned without regard to the persistent tier; otherwise a persistent
\* entry valid for the maxAge is returned and is, after the read, the entry of
\* the in-memory tier with the timestamp and payload it has in the persistent
\* tier; the read changes no other entry and never the persistent tier.
C17_ReadStep ==
  ReadStep =>
    LET k == last'.key
        raw == localStorage[StorageKey(k)]
    IN /\ localStorage' = localStorage
       /\ \A x \in DOMAIN memoryCache : x # k => memoryCache'[x] = memoryCache[x]
       /\ FreshInMemory(k, last'.maxAge) =>
            /\ last'.from = "memory"
            /\ last'.res = Some(Get(memoryCache[k]).d)
            /\ memoryCache' = memoryCache
       /\ last'.from = "storage" =>
            /\ ~FreshInMemory(k, last'.maxAge)
            /\ raw # None /\ Get(raw).kind = "entry"
            /\ now - Get(raw).t <= last'.maxAge
            /\ memoryCache'[k] = Some([t |-> Get(raw).t, d |-> Get(raw).d])
            /\ last'.res = Some(Get(raw).d)
       /\ last'.from = "none" => memoryCache' = memoryCache

\* C17: cacheRead checks the in-memory tier first, then the persistent tier,
\* and promotes a valid persistent entry into the in-memory tier with its
\* original timestamp and payload before returning it: a read never renews an
\* entry's age.
C17_MemoryFirstThenPromote == [][C17_ReadStep]_vars

\* a read found the in-memory entry too old, was answered by the persistent
\* tier and left that entry, written before now, in the in-memory tier
C17_Witness ==
  /\ last.op = "read" /\ last.from = "storage"
  /\ Get(last.t) < now
  /\ memoryCache[last.key] = Some([t |-> Get(last.t), d |-> Get(last.res)])
  /\ Get(localStorage[StorageKey(last.key)]).t = Get(last.t)
  /\ "data" \notin DOMAIN Get(last.res)

\* ------------------------------------------------------------------ agreement of the tiers
\* C18: where no operation on the persistent tier has failed, every key the
\* in-memory tier holds is held by the persistent tier with the same timestamp
\* and payload: the persistent entry is the serialization of the in-memory one.
C18_MemoryAgreesWithStorage ==
  \A k \in DOMAIN memoryCache :
    memoryCache[k] # None =>
      /\ localStorage[StorageKey(k)] = Some(Stringify(Get(memoryCache[k])))
      /\ Get(localStorage[StorageKey(k)]).t = Get(memoryCache[k]).t

\* both keys are held by both tiers: one was promoted by a read from an entry
\* of an earlier session, the other written later with a payload that has an
\* undefined field, which its serialization lacks
C18_Witness ==
  /\ \A k \in CacheKeys : memoryCache[k] # None /\ localStorage[StorageKey(k)] # None
  /\ \E k \in CacheKeys : Get(memoryCache[k]).t = 0 /\ lastWrite[k] = None
  /\ \E k \in CacheKeys :
       /\ Get(memoryCache[k]).t > 0 /\ lastWrite[k] # None
       /\ Get(memoryCache[k]).d.id = 2
       /\ "data" \notin DOMAIN Get(localStorage[StorageKey(k)]).d

\* C2 (state part): what cacheRead returns is an entry whose age is at most
\* the maxAge of that call, and it returns null only when neither tier holds a
\* usable entry whose age is at most that maxAge (the boundary is inclusive).
C2_State ==
  last.op = "read" =>
    LET k == last.key
        raw == localStorage[StorageKey(k)]
    IN /\ last.res # None =>
            /\ memoryCache[k] = Some([t |-> Get(last.t), d |-> Get(last.res)])
            /\ now - Get(last.t) <= last.maxAge
       /\ last.res = None =>
            /\ memoryCache[k] # None => now - Get(memoryCache[k]).t > last.maxAge
            /\ (last.ok /\ raw # None /\ Get(raw).kind = "entry") =>
                  now - Get(raw).t > last.maxAge

\* C2 (action part): a read that returns null removes and changes nothing, so
\* a later read with a larger maxAge still finds the entry.
C2_NullReadKeeps ==
  (last'.op = "read" /\ last'.res = None)
    => (memoryCache' = memoryCache /\ localStorage' = localStorage)

\* C2: cacheRead never returns a payload older than its maxAge, validity is
\* evaluated afresh on each read with an inclusive boundary, and a null read
\* leaves the entry in place for a later read with a larger maxAge.
C2_ReadRespectsMaxAge == []C2_State /\ [][C2_NullReadKeeps]_vars

\* a read at the boundary (age = maxAge > 0) that the persistent tier answered,
\* of an entry the in-memory tier did not hold fresh
C2_Witness ==
  /\ last.op = "read"
  /\ last.from = "storage"
  /\ last.maxAge > 0
  /\ now - Get(last.t) = last.maxAge

\* ------------------------------------------------------------------ the load effect's claims
\* two loads in succession for the same selection: the first had returned when
\* the second started
InSuccession(i) ==
  /\ runs[i].v = runs[i + 1].v /\ runs[i].s = runs[i + 1].s
  /\ runs[i].pc = "done"
  /\ runs[i + 1].afterDone

FirstLoadCached(i) ==
  /\ InSuccession(i)
  /\ runs[i].outcome = "ok"
  /\ ~runs[i].emptyList
  /\ runs[i].pointsT # None
  /\ runs[i + 1].startedAt - Get(runs[i].pointsT) <= PointsMaxAge
  /\ runs[i].sysT # None => runs[i + 1].startedAt - Get(runs[i].sysT) <= SysMaxAge

C4_NoStaleApply ==
  \A tag \in {ui.rowsBy, ui.statsBy, ui.sysBy} : tag # None => ~Get(tag).cancelled

\* C19: a load of a variable that missed the cache and was not cancelled when
\* its rows arrived delivered the aggregation of all rows of its query, and
\* had by then written {rows, stats} under the key it read: the cache holds
\* that entry, and a read of the key within maxAge of the write returns
\* exactly the rows and stats that were delivered.
C19_MissFetchesAggregatesWrites ==
  \A i \in 1..Len(runs) :
    runs[i].delivered # None =>
      LET r == runs[i]
          key == PointsKey(r.v, r.s)
          a == Aggregate(QuerySource("var", r.v, r.s), CodeField(r.v))
      IN /\ Get(r.delivered).rows = [j \in 1..Len(a.byCode) |-> a.byCode[j].row]
         /\ Get(r.delivered).stats = a.stats
         /\ memoryCache[key] # None
         /\ Get(memoryCache[key]).d = Get(r.delivered)
         /\ Get(memoryCache[key]).t >= Get(r.pointsT)
         /\ now - Get(r.pointsT) <= PointsMaxAge =>
              ReadNow(key, PointsMaxAge).res = r.delivered
         /\ ui.rowsBy = Some([run |-> r.id, cancelled |-> FALSE]) =>
              /\ ui.rows = Get(r.delivered).rows
              /\ ui.statsByCode = Get(r.delivered).stats

\* a load has delivered two representatives, fetched in two pages, and their
\* stats; a day later the cache still returns them
C19_Witness ==
  \E i \in 1..Len(runs) :
    /\ runs[i].delivered # None
    /\ Len(Get(runs[i].delivered).rows) = 2
    /\ Get(runs[i].delivered).stats["A"].count = 2
    /\ runs[i].reqsDone >= 2
    /\ now = Get(runs[i].pointsT) + PointsMaxAge
    /\ ReadNow(PointsKey(runs[i].v, runs[i].s), PointsMaxAge).res = runs[i].delivered
    /\ ui.rowsBy = Some([run |-> i, cancelled |-> FALSE])

\* the backend request of a point load: the table and the region filter
TableOf(v) ==
  IF v = "meteo" THEN "temp_eobs_2014_24"
  ELSE IF v = "caudal" THEN "caudal_tejo_loc"
  ELSE "piezo_tejo_loc_zvt"
RegionFilter(v, s) ==
  IF v # "meteo" /\ s # "" /\ s # "todos" /\ CodeField(v) # "localizacao"
    THEN Some(s) ELSE None
LogicalQuery(v, s) == [table |-> TableOf(v), filter |-> RegionFilter(v, s)]
\* the key the load reads and writes its points under
LoadKeyOf(v, s) == IF v = "meteo" THEN MeteoKey ELSE PointsKey(v, s)

\* C20: the key of a load is a function of its query: for the selection of
\* every load and every other selection, the two keys are equal exactly when
\* the two backend requests are.
C20_KeyMatchesQuery ==
  \A i \in 1..Len(runs) :
    \A v \in LoadVariables, s \in SistemaValues :
      (LoadKeyOf(runs[i].v, runs[i].s) = LoadKeyOf(v, s))
        <=> (LogicalQuery(runs[i].v, runs[i].s) = LogicalQuery(v, s))

\* ------------------------------------------------------------------ utmToLatLng claims
Returned == utm.pc = "returned"
BothNumbers == IsNumber(utm.x) /\ IsNumber(utm.y)
ProjectedBranch ==
  BothNumbers /\ (AbsGreater(Get(utm.x), MeterThreshold) \/ AbsGreater(Get(utm.y), MeterThreshold))

\* C21: for numbers x, y with |x| <= 1000, |y| <= 90 and |x| <= 180 the
\* normalizer returns (y, x): latitude y and longitude x, unchanged.
C21_DegreesUnchanged ==
  (/\ Returned /\ BothNumbers
   /\ AbsLeq(Get(utm.x), 1000) /\ AbsLeq(Get(utm.y), 90) /\ AbsLeq(Get(utm.x), 180))
  => utm.result = [kind |-> "pair", lat |-> Get(utm.y), lon |-> Get(utm.x)]

\* the pair (x, y) = (-8, 39) came back as latitude 39, longitude -8
C21_Witness ==
  /\ Returned
  /\ utm.x = Some(Num(-8)) /\ utm.y = Some(Num(39))
  /\ utm.result = [kind |-> "pair", lat |-> Num(39), lon |-> Num(-8)]

\* C28: the normalizer never raises: it returns null when an argument is not a
\* number, when the projection throws or yields a non-finite value, and when
\* both magnitudes are at most 1000 but |y| > 90 or |x| > 180.
C28_NeverRaises ==
  Returned =>
    /\ utm.result.kind \in {"null", "pair"}
    /\ ~BothNumbers => utm.result = Null
    /\ (ProjectedBranch /\ utm.proj \in {"throws", "nonfinite"}) => utm.result = Null
    /\ (/\ BothNumbers
        /\ AbsLeq(Get(utm.x), 1000) /\ AbsLeq(Get(utm.y), 1000)
        /\ (AbsGreater(Get(utm.y), 90) \/ AbsGreater(Get(utm.x), 180)))
       => utm.result = Null

\* the projection of a grid coordinate threw and null came back
C28_Witness ==
  /\ Returned
  /\ utm.x = Some(Num(200000)) /\ utm.y = Some(Num(200000))
  /\ utm.proj = "throws"
  /\ utm.result = Null

\* ------------------------------------------------------------------ C22
\* a step in which the effect starts a run
Starts == Len(runs') = Len(runs) + 1
Started == runs'[Len(runs')]
\* the run that starts was answered by the point cache (only then does it have
\* the timestamp of its points before its first await)
ServedAtStart == Starts /\ Started.pointsT # None

\* C22: the point load of a variable serves from the cache only an entry that
\* holds at least one row; an entry of zero rows sends the load to the backend.
C22_ServesOnlyNonEmpty ==
  [][(ServedAtStart /\ Started.v # "meteo") => ui'.rows # <<>>]_vars

\* ------------------------------------------------------------------ degraded loads
\* The load effect over a backend and a cache that hold every anomaly the
\* effect absorbs: rows without a code, without coordinates, with a date no
\* branch of parseDate can read and with a date out of range, a meteo row
\* without coordinates, persistent entries that are not JSON or carry no
\* timestamp, and a localStorage that may throw on every access.
DegradedPiezo ==
  <<PiezoRow("A", Some("T1"), DMonth13),
    [PiezoRow("B", Some("T1"), D2020) EXCEPT !.coord_x_m = None],
    [PiezoRow("C", None, DText) EXCEPT !.codigo = None],
    PiezoRow("A", Some(""), DText)>>
DegradedMeteo == <<[MeteoRow(39, -8) EXCEPT !.lat = None], MeteoRow(39, -8)>>
DegradedStorage ==
  [k \in {StorageKey(x) : x \in LoadKeys} |->
     IF k = StorageKey(PointsKey("profundidade", "todos")) THEN Some(NotJson)
     ELSE IF k = StorageKey(SysKey("profundidade")) THEN Some(NoTimestamp)
     ELSE IF k = StorageKey(MeteoKey) THEN Some(NotJson)
     ELSE None]

InitDegraded ==
  /\ tables = [profundidade |-> DegradedPiezo, caudal |-> CaudalTable, meteo |-> DegradedMeteo]
  /\ sel = [variable |-> "profundidade", sistema |-> "todos", mounted |-> FALSE, inst |-> 0]
  /\ ui = InitialUi
  /\ runs = <<>>
  /\ memoryCache = [k \in LoadKeys |-> None]
  /\ localStorage = DegradedStorage
  /\ storageAccess \in BOOLEAN
  /\ now = 0
  /\ last = [op |-> "init"]
  /\ lastWrite = [k \in CacheKeys |-> None]
  /\ IdleFetcher
  /\ IdleAggregator
  /\ IdleCoord

NextDegraded == Mount \/ Unmount \/ SelectVariable \/ PageArrives \/ PageFails

SpecDegraded == InitDegraded /\ [][NextDegraded]_vars

\* ------------------------------------------------------------------ C23
\* a step in which the page request of run i fails and ends the run
FailsIn(i) ==
  /\ Len(runs') = Len(runs)
  /\ runs[i].pc = "await"
  /\ runs'[i].outcome = "failed"
\* the failure ends the run without another request, leaves every cache entry
\* as it was and, unless the run was superseded, shows the error
C23_FailureStep ==
  \A i \in 1..Len(runs) :
    FailsIn(i) =>
      /\ runs'[i].pc = "done"
      /\ Requests(runs'[i]) = Requests(runs[i])
      /\ memoryCache' = memoryCache
      /\ localStorage' = localStorage
      /\ ~runs[i].cancel => (ui'.err # None /\ ~ui'.loading)
\* a run that ended issues no request and stays ended
C23_NoRetry ==
  \A i \in 1..Len(runs) :
    runs[i].pc = "done" =>
      (runs'[i].pc = "done" /\ Requests(runs'[i]) = Requests(runs[i])
         /\ runs'[i].outcome = runs[i].outcome)
\* the error message appears only in a step in which a page request fails
C23_OnlyTransport ==
  (ui'.err # None /\ ui'.err # ui.err) =>
    \E i \in 1..Len(runs) : FailsIn(i) /\ ~runs[i].cancel

\* C23: a failed page request ends the load in the error state, is not retried
\* and leaves the cache untouched; a corrupt cache entry, a failing cache write
\* and an unreadable coordinate or date never produce the error state.
C23_OnlyTransportFailuresSurface ==
  [][C23_FailureStep /\ C23_NoRetry /\ C23_OnlyTransport]_vars

\* a load over the anomalous rows and cache ended normally, and the load after
\* it failed on a page request and shows the error
C23_Witness ==
  \E i \in 1..Len(runs) : \E j \in 1..Len(runs) :
    /\ j < i
    /\ runs[j].outcome = "ok" /\ runs[j].delivered # None
    /\ runs[i].outcome = "failed" /\ ~runs[i].endedCancelled
    /\ ui.err # None
    /\ ~ui.loading

\* ------------------------------------------------------------------ C24
SameKey(r1, r2) == r1.v = r2.v /\ r1.s = r2.s
\* run i is fetching the points of the key of run r and no run started after i
\* has written that key
FetchingFor(i, r) ==
  /\ SameKey(runs[i], r)
  /\ runs[i].pc = "await" /\ runs[i].what = "var"
  /\ \A k \in (i + 1)..Len(runs) : ~(SameKey(runs[k], r) /\ runs[k].delivered # None)

\* C24: a load that starts while an earlier load of the same key is still
\* fetching is not served by the cache and issues its own first request, so
\* both loads fetch.
C24_OverlappingLoadsBothFetch ==
  [][(Starts /\ Started.v # "meteo" /\ \E i \in 1..Len(runs) : FetchingFor(i, Started))
       => (/\ Started.pointsT = None
           /\ Started.pc = "await" /\ Started.what = "var"
           /\ Requests(Started) = 1
           /\ \A i \in 1..Len(runs) : FetchingFor(i, Started) => Requests(runs'[i]) >= 1)]_vars

\* two loads of the same key each wait for the answer to a request of their own
C24_Witness ==
  \E i \in 1..Len(runs) : \E j \in 1..Len(runs) :
    /\ i < j
    /\ SameKey(runs[i], runs[j])
    /\ runs[i].pc = "await" /\ runs[i].what = "var" /\ Len(runs[i].f.reqs) >= 1
    /\ runs[j].pc = "await" /\ runs[j].what = "var" /\ Len(runs[j].f.reqs) >= 1

\* ------------------------------------------------------------------ C25
\* C25: parseDate yields a valid date for every date string of a row the
\* aggregation has read.
C25_ParsedDateValid ==
  \A i \in 1..(agg.i - 1) :
    TruthyDate(aggIn[i].data) => parseDate(Get(aggIn[i].data)).valid

\* ------------------------------------------------------------------ C26
\* every page request is eventually answered: the answer may be an error at
\* any time (FetchPageError), but nothing forces one
FairFetch == WF_vars(FetchPageOk)
SpecFetchLive == SpecFetch /\ FairFetch

FetchEnded == fetch.pc \in {"returned", "thrown"}
\* a source of n rows is read in at most n \div pageSize + 1 requests
RequestBound == Len(fetch.reqs) <= Len(source) \div pageSize + 1

\* C26: over a finite source and a page size of at least 1, a fetchAll whose
\* requests are all answered returns or throws, after at most one request
\* more than the source has full pages.
C26_FetchAllTerminates ==
  /\ []RequestBound
  /\ (fetch.pc = "await") ~> FetchEnded

\* a fetchAll that needed more than two requests has returned
C26_Witness ==
  /\ fetch.pc = "returned"
  /\ Len(fetch.reqs) >= 3
  /\ pageSize >= 1

\* ------------------------------------------------------------------ C27
SysKeys == {SysKey(v) : v \in LoadVariables} \cap LoadKeys
EntryChanged(k) ==
  \/ memoryCache'[k] # memoryCache[k]
  \/ localStorage'[StorageKey(k)] # localStorage[StorageKey(k)]
\* a step in which run i receives the last page of its region labels
SysFetched(i) ==
  /\ Len(runs') = Len(runs)
  /\ runs[i].pc = "await" /\ runs[i].what = "sys"
  /\ runs'[i].pc = "done" /\ runs'[i].outcome = "ok"
\* a region-label entry changes only when the labels of its variable have been
\* fetched, and no point entry changes in that step
C27_Step ==
  \A k \in SysKeys :
    EntryChanged(k) =>
      /\ \E i \in 1..Len(runs) : SysFetched(i) /\ SysKey(runs[i].v) = k
      /\ \A p \in LoadKeys \ SysKeys : ~EntryChanged(p)
\* the entries a run was answered with: points at most PointsMaxAge old, labels
\* at most SysMaxAge old, whatever the region selected
C27_Ages ==
  \A i \in 1..Len(runs) :
    /\ runs[i].pointsT # None => runs[i].startedAt - Get(runs[i].pointsT) \in 0..PointsMaxAge
    /\ runs[i].sysT # None => runs[i].startedAt - Get(runs[i].sysT) \in 0..SysMaxAge

\* C27: the region labels of a variable have an entry of their own, keyed by the
\* variable alone and served for SysMaxAge days; a step that writes a point
\* entry leaves it as it was, and the step that writes it changes no point entry.
C27_RegionLabelsIndependent == [][C27_Step]_vars /\ []C27_Ages

\* a load, for a region other than the default, whose points entry had expired
\* and was fetched again while its labels were served from the entry written
\* more than PointsMaxAge days before
C27_Witness ==
  \E i \in 1..Len(runs) :
    /\ runs[i].pc = "done" /\ runs[i].outcome = "ok"
    /\ runs[i].s # "todos"
    /\ runs[i].delivered # None
    /\ runs[i].pointsT = Some(runs[i].startedAt)
    /\ runs[i].sysT # None
    /\ runs[i].startedAt - Get(runs[i].sysT) > PointsMaxAge

\* ------------------------------------------------------------------ C29
\* a step in which run i, superseded while it was fetching the points of a
\* variable, receives a page
CancelledPointsPage(i) ==
  /\ Len(runs') = Len(runs)
  /\ runs[i].pc = "await" /\ runs[i].what = "var" /\ runs[i].cancel
  /\ runs'[i] # runs[i]

\* C29: a load of a variable's points that was superseded while its fetch was
\* in flight writes nothing: every cache entry is after each of its steps what
\* it was before, the fetched rows are neither shown nor stored, and the load
\* ends without reading the region labels.
C29_CancelledLoadWritesNothing ==
  [][\A i \in 1..Len(runs) :
       CancelledPointsPage(i) =>
         /\ memoryCache' = memoryCache
         /\ localStorage' = localStorage
         /\ ui' = ui
         /\ runs'[i].delivered = None /\ runs'[i].pointsT = None
         /\ runs'[i].pc = "done" => runs'[i].outcome \in {"abandoned", "failed"}]_vars

\* a superseded load fetched all its pages and was abandoned, and a later load
\* of the same key missed the cache and fetched the rows again
C29_Witness ==
  \E i \in 1..Len(runs) : \E j \in 1..Len(runs) :
    /\ i < j
    /\ SameKey(runs[i], runs[j])
    /\ runs[i].outcome = "abandoned" /\ runs[i].reqsDone >= 1
    /\ runs[j].afterDone
    /\ runs[j].delivered # None /\ runs[j].pointsT = Some(runs[j].startedAt)

\* ------------------------------------------------------------------ C30
\* every page request of a load is eventually answered: the answer may be an
\* error at any time (PageFails), but nothing forces one. This is weak fairness
\* of PageArrives, WF_vars(PageArrives), written out: PageArrives is enabled
\* exactly while some run awaits a page.
FairLoad == []<>(\A i \in 1..Len(runs) : runs[i].pc # "await") \/ []<><<PageArrives>>_vars
SpecDegradedLive == SpecDegraded /\ FairLoad

\* a step in which run i continues after the answer to its request
RunMoves(i) ==
  /\ Len(runs') = Len(runs)
  /\ runs[i].pc = "await"
  /\ (runs'[i].pc # "await" \/ runs'[i].f # runs[i].f)
Latest == Len(runs)
\* a superseded run changes neither the flag nor the message, and the flag
\* falls only in a step of the latest run: its start, when the cache answers,
\* or its end
C30_Step ==
  /\ \A i \in 1..Len(runs) :
       (RunMoves(i) /\ runs[i].cancel) => (ui'.loading = ui.loading /\ ui'.err = ui.err)
  /\ (ui.loading /\ ~ui'.loading) =>
       \/ Starts /\ Started.pc = "done"
       \/ /\ runs # <<>>
          /\ RunMoves(Latest)
          /\ ~runs[Latest].cancel
          /\ runs'[Latest].pc = "done"
\* with every request answered the flag is down, after a success and after a failure
AllAnswered == \A i \in 1..Len(runs) : runs[i].pc = "done"
C30_Settled == (sel.mounted /\ AllAnswered) => ~ui.loading
\* the component is mounted and its latest load is the n-th
LatestIs(n) == sel.mounted /\ Len(runs) = n
\* the selection has changed since (a later load started, or the component is gone)
ChangedSince(n) == ~sel.mounted \/ Len(runs) > n

\* C30: only the most recently started load clears the loading flag, a
\* superseded load sets neither the flag nor the error message, and once the
\* selection no longer changes and the requests are answered the flag is false
\* and stays false.
C30_LoadingClearedByLatest ==
  /\ [][C30_Step]_vars
  /\ []C30_Settled
  /\ \A n \in 1..MaxRuns : LatestIs(n) ~> (~ui.loading \/ ChangedSince(n))

\* a superseded load has ended after the load that replaced it had failed: the
\* flag is down and the message of the failure is still shown
C30_Witness ==
  /\ sel.mounted
  /\ Len(runs) >= 2
  /\ AllAnswered
  /\ runs[Latest].outcome = "failed"
  /\ \E i \in 1..(Latest - 1) : runs[i].endedCancelled /\ runs[i].reqsDone >= 1
  /\ ui.err # None
  /\ ~ui.loading

====
